---- MODULE Spec2Model ----
(***************************************************************************)
(* Model of the limit order book of src/src/limit_order_book/order.rs:    *)
(* Limit (one price level) and LimitOrderBook (two BTreeMaps of levels,   *)
(* a flat HashMap of orders and the cached top-of-book fields).           *)
(*                                                                         *)
(* Decimal values are modelled as integers (the arithmetic used is exact  *)
(* addition, subtraction and multiplication).  Option<T> is modelled as a *)
(* set with at most one element: {} is None and {x} is Some(x).           *)
(* Order.tick_id, entry_time and event_time are never read by the book    *)
(* and are left out of the order record.  Limit.parent is None for every  *)
(* level the book creates (Limit::new, never assigned afterwards).        *)
(*                                                                         *)
(* The second part models the simple engine of                             *)
(* src/src/matching_engine/orderbook.rs (OrderBook, LimitOrder, Order),    *)
(* which has its own variables and its own specification, SpecEngine.      *)
(***************************************************************************)
EXTENDS Integers, FiniteSets, Sequences, TLC

\* ------------------------------------------------------------------ bounds
\* exchange ids, limit prices and share counts of the orders handed to the book
MaxId == 2
MaxPrice == 2
MaxShares == 2
\* add_order is not called once the levels account for this many entries
\* (order_count grows without limit when one id is submitted again and again)
MaxOrders == 2

Ids == 1..MaxId
Prices == 1..MaxPrice
\* an order's share count is positive
Sizes == 1..MaxShares

\* ------------------------------------------------------------------ values
OrderType == {"Bid", "Ask"}

Order == [exchange_id : Ids, order_type : OrderType, shares : Sizes, limit_price : Prices]
\* Order::entry_time: the callers modelled stamp their orders in exchange-id
\* order, so a smaller exchange_id is an earlier entry time
entry_time(order) == order.exchange_id


EmptyMap == << >>

Put(f, k, v) == [x \in (DOMAIN f) \cup {k} |-> IF x = k THEN v ELSE f[x]]

Drop(f, k) == [x \in (DOMAIN f) \ {k} |-> f[x]]

\* ------------------------------------------------------------------ Limit
Limit_new(price) ==
    [limit_price |-> price, orders |-> EmptyMap, size |-> 0, total_volume |-> 0, order_count |-> 0]

Limit_add_order(limit, order) ==
    [limit EXCEPT !.size = @ + order.shares,
                  !.total_volume = @ + order.shares * order.limit_price,
                  !.order_count = @ + 1,
                  !.orders = Put(@, order.exchange_id, order)]
\* a removal without the reset of the aggregates when the map becomes empty
Limit_remove_order_NoReset(limit, order) ==
    IF order.exchange_id \in DOMAIN limit.orders
    THEN [limit EXCEPT !.size = @ - limit.orders[order.exchange_id].shares,
                       !.total_volume = @ - limit.orders[order.exchange_id].shares
                                            * limit.orders[order.exchange_id].limit_price,
                       !.order_count = @ - 1,
                       !.orders = Drop(@, order.exchange_id)]
    ELSE limit


\* a removal that forgets to take the removed order's shares off the level's size
Limit_remove_order_KeepSize(limit, order) ==
    LET found == order.exchange_id \in DOMAIN limit.orders
        l1 == IF found
              THEN [limit EXCEPT !.total_volume = @ - limit.orders[order.exchange_id].shares
                                                      * limit.orders[order.exchange_id].limit_price,
                                 !.order_count = @ - 1,
                                 !.orders = Drop(@, order.exchange_id)]
              ELSE limit
        l2 == IF DOMAIN l1.orders = {}
              THEN [l1 EXCEPT !.size = 0, !.total_volume = 0, !.order_count = 0]
              ELSE l1
    IN  l2

\* parent is None: the second `if` always applies when the map is empty and
\* the third (recursion into the parent) never does.
Limit_remove_order(limit, order) ==
    LET found == order.exchange_id \in DOMAIN limit.orders
        l1 == IF found
              THEN [limit EXCEPT !.size = @ - limit.orders[order.exchange_id].shares,
                                 !.total_volume = @ - limit.orders[order.exchange_id].shares
                                                      * limit.orders[order.exchange_id].limit_price,
                                 !.order_count = @ - 1,
                                 !.orders = Drop(@, order.exchange_id)]
              ELSE limit
        l2 == IF DOMAIN l1.orders = {}
              THEN [l1 EXCEPT !.size = 0, !.total_volume = 0, !.order_count = 0]
              ELSE l1
    IN  l2

Limit_is_empty(limit) == limit.size = 0

\* ------------------------------------------------------------------ BTreeMap keys
SetMin(S) == CHOOSE x \in S : \A y \in S : x <= y

SetMax(S) == CHOOSE x \in S : \A y \in S : x >= y

\* the value of a Some(x)
TheOne(S) == CHOOSE x \in S : TRUE

\* keys().next().cloned()
KeysFirst(m) == IF DOMAIN m = {} THEN {} ELSE {SetMin(DOMAIN m)}

\* keys().next_back().cloned()
KeysLast(m) == IF DOMAIN m = {} THEN {} ELSE {SetMax(DOMAIN m)}

\* ------------------------------------------------------------------ simple engine: values
\* src/src/matching_engine/orderbook.rs keeps sizes in f64. f64 arithmetic rounds to
\* the nearest value with a 53-bit significand, ties to the even significand. The
\* model keeps that rule on a significand of SigBits bits, with sizes counted in
\* units of the smallest size (integers).
SigBits == 2
\* the largest size of an order handed to the engine
MaxSize == 6
\* add_limit_order is not called once the engine holds this many resting orders
MaxResting == 3

\* the distance between neighbouring representable values around x >= 0
RECURSIVE Spacing(_, _)
Spacing(x, s) == IF x < (2 ^ SigBits) * s THEN s ELSE Spacing(x, 2 * s)

\* the representable value nearest to the exact result x, ties to even
RoundNonNeg(x) ==
    LET s == Spacing(x, 1)
        q == x \div s
        r == x % s
    IN  IF 2 * r < s THEN q * s
        ELSE IF 2 * r > s THEN (q + 1) * s
        ELSE IF q % 2 = 0 THEN q * s
        ELSE (q + 1) * s

f64(x) == IF x >= 0 THEN RoundNonNeg(x) ELSE 0 - RoundNonNeg(0 - x)

\* a - b as f64 computes it
f64_sub(a, b) == f64(a - b)

\* the sizes an f64 can hold, up to MaxSize
F64 == {x \in 0..MaxSize : f64(x) = x}

\* Order::new(size, order_type), with a positive size
Order_new == [size : F64 \ {0}, order_type : OrderType]

is_filled(order) == order.size = 0

LimitOrder_new(price) == [price |-> price, orders |-> << >>]

LimitOrder_add_order(limit, order) == [limit EXCEPT !.orders = Append(@, order)]

\* the `for limit_order in self.orders.iter_mut()` loop from index i on
RECURSIVE fill_order_from(_, _, _)
fill_order_from(limit_orders, market_order, i) ==
    IF i > Len(limit_orders)
    THEN [orders |-> limit_orders, market_order |-> market_order]
    ELSE LET limit_order == limit_orders[i]
             ge == market_order.size >= limit_order.size
             market_order1 ==
                 IF ge
                 THEN [market_order EXCEPT !.size = f64_sub(@, limit_order.size)]
                 ELSE [market_order EXCEPT !.size = 0]
             limit_order1 ==
                 IF ge
                 THEN [limit_order EXCEPT !.size = 0]
                 ELSE [limit_order EXCEPT !.size = f64_sub(@, market_order.size)]
             limit_orders1 == [limit_orders EXCEPT ![i] = limit_order1]
         IN  IF is_filled(market_order1)
             THEN [orders |-> limit_orders1, market_order |-> market_order1]
             ELSE fill_order_from(limit_orders1, market_order1, i + 1)

\* LimitOrder::fill_order: the level and the market order after the call
LimitOrder_fill_order(limit, market_order) ==
    LET r == fill_order_from(limit.orders, market_order, 1)
    IN  [limit |-> [limit EXCEPT !.orders = r.orders], market_order |-> r.market_order]

OrderBook_new == [bids |-> EmptyMap, asks |-> EmptyMap]

\* a set of prices as the sequence sort_by(|a, b| a.price.cmp(&b.price)) yields
RECURSIVE Ascending(_)
Ascending(S) ==
    IF S = {} THEN << >> ELSE <<SetMin(S)>> \o Ascending(S \ {SetMin(S)})

\* a set of prices as the sequence sort_by(|a, b| b.price.cmp(&a.price)) yields
RECURSIVE Descending(_)
Descending(S) ==
    IF S = {} THEN << >> ELSE <<SetMax(S)>> \o Descending(S \ {SetMax(S)})

\* the asks sorted with the comparison of bid_limits
ask_limits_Descending(b) == Descending(DOMAIN b.asks)

\* the Vec of references to the ask levels, given by their prices
ask_limits(b) == Ascending(DOMAIN b.asks)

bid_limits(b) == Descending(DOMAIN b.bids)

\* the `for limit_order in limits` loop from index k on, over one side's levels
RECURSIVE fill_limits_from(_, _, _, _)
fill_limits_from(side, limits, market_order, k) ==
    IF k > Len(limits)
    THEN [side |-> side, market_order |-> market_order]
    ELSE LET r == LimitOrder_fill_order(side[limits[k]], market_order)
             side1 == [side EXCEPT ![limits[k]] = r.limit]
         IN  IF is_filled(r.market_order)
             THEN [side |-> side1, market_order |-> r.market_order]
             ELSE fill_limits_from(side1, limits, r.market_order, k + 1)

\* OrderBook::fill_market_order: the book and the market order after the call
fill_market_order(b, market_order) ==
    IF market_order.order_type = "Bid"
    THEN LET r == fill_limits_from(b.asks, ask_limits(b), market_order, 1)
         IN  [book |-> [b EXCEPT !.asks = r.side], market_order |-> r.market_order]
    ELSE LET r == fill_limits_from(b.bids, bid_limits(b), market_order, 1)
         IN  [book |-> [b EXCEPT !.bids = r.side], market_order |-> r.market_order]

add_limit_order(b, order, price) ==
    IF order.order_type = "Bid"
    THEN [b EXCEPT !.bids =
             IF price \in DOMAIN @
             THEN [@ EXCEPT ![price] = LimitOrder_add_order(@, order)]
             ELSE Put(@, price, LimitOrder_add_order(LimitOrder_new(price), order))]
    ELSE [b EXCEPT !.asks =
             IF price \in DOMAIN @
             THEN [@ EXCEPT ![price] = LimitOrder_add_order(@, order)]
             ELSE Put(@, price, LimitOrder_add_order(LimitOrder_new(price), order))]

\* ------------------------------------------------------------------ state
VARIABLES
    bids,           \* BTreeMap price -> Limit
    asks,           \* BTreeMap price -> Limit
    orders,         \* HashMap exchange_id -> Order
    lowest_ask,     \* Option<price>
    highest_bid,    \* Option<price>
    pc,             \* "idle", or "loop" inside execute_order's while loop
    ex_order,       \* execute_order's local `order` (Option; None when idle)
    ex_limit_price, \* execute_order's local `limit_price`
    removed_limit,  \* execute_order's local `removed_limit`
    last,           \* history: the operation last started, its argument, the book before it
    engine,         \* the simple engine's OrderBook: bids and asks, HashMap price -> LimitOrder
    market_order,   \* the caller's market order after fill_market_order (Option)
    engine_last     \* history: the engine call last made, its argument, the OrderBook before it

vars == <<bids, asks, orders, lowest_ask, highest_bid, pc, ex_order, ex_limit_price,
          removed_limit, last, engine, market_order, engine_last>>

\* the limit order book's part of the state
book_vars == <<bids, asks, orders, lowest_ask, highest_bid, pc, ex_order, ex_limit_price,
               removed_limit, last>>

\* the simple engine's part of the state
engine_vars == <<engine, market_order, engine_last>>

locals == <<pc, ex_order, ex_limit_price, removed_limit>>

Book == [bids |-> bids, asks |-> asks, orders |-> orders,
         lowest_ask |-> lowest_ask, highest_bid |-> highest_bid]

SetBook(b) ==
    /\ bids' = b.bids
    /\ asks' = b.asks
    /\ orders' = b.orders
    /\ lowest_ask' = b.lowest_ask
    /\ highest_bid' = b.highest_bid

\* ------------------------------------------------------------------ LimitOrderBook
LimitOrderBook_new ==
    [bids |-> EmptyMap, asks |-> EmptyMap, orders |-> EmptyMap, lowest_ask |-> {}, highest_bid |-> {}]

\* the level map of one side after routing `order` to its price
SideAdd(side, order) ==
    IF order.limit_price \in DOMAIN side
    THEN [side EXCEPT ![order.limit_price] = Limit_add_order(@, order)]
    ELSE Put(side, order.limit_price, Limit_add_order(Limit_new(order.limit_price), order))

\* top-of-book recomputation that reads the bid side from the low end
TopOfBook_BidFromLowEnd(b) ==
    [b EXCEPT !.lowest_ask = KeysFirst(b.asks), !.highest_bid = KeysFirst(b.bids)]

TopOfBook(b) ==
    [b EXCEPT !.lowest_ask = KeysFirst(b.asks), !.highest_bid = KeysLast(b.bids)]
\* a submit that, when its price crosses the best opposite price, also takes the
\* best opposite level out of the book
add_order_TakesCrossedLevel(b, order) ==
    LET b1 == [b EXCEPT !.orders = Put(@, order.exchange_id, order)]
        b2 == IF order.order_type = "Bid"
              THEN [b1 EXCEPT !.bids = SideAdd(@, order)]
              ELSE [b1 EXCEPT !.asks = SideAdd(@, order)]
        b3 == IF order.order_type = "Bid"
              THEN IF DOMAIN b2.asks # {} /\ SetMin(DOMAIN b2.asks) <= order.limit_price
                   THEN [b2 EXCEPT !.asks = Drop(@, SetMin(DOMAIN b2.asks))]
                   ELSE b2
              ELSE IF DOMAIN b2.bids # {} /\ SetMax(DOMAIN b2.bids) >= order.limit_price
                   THEN [b2 EXCEPT !.bids = Drop(@, SetMax(DOMAIN b2.bids))]
                   ELSE b2
    IN  TopOfBook(b3)


add_order(b, order) ==
    LET b1 == [b EXCEPT !.orders = Put(@, order.exchange_id, order)]
        b2 == IF order.order_type = "Bid"
              THEN [b1 EXCEPT !.bids = SideAdd(@, order)]
              ELSE [b1 EXCEPT !.asks = SideAdd(@, order)]
    IN  TopOfBook(b2)

\* a side after remove_order's branch that leaves an emptied level in the map
SideRemove_KeepEmpty(side, order) ==
    IF order.limit_price \in DOMAIN side
    THEN [side EXCEPT ![order.limit_price] = Limit_remove_order(@, order)]
    ELSE side

SideRemove(side, order) ==
    IF order.limit_price \in DOMAIN side
    THEN LET limit == Limit_remove_order(side[order.limit_price], order)
         IN  IF Limit_is_empty(limit)
             THEN Drop(side, order.limit_price)
             ELSE [side EXCEPT ![order.limit_price] = limit]
    ELSE side

remove_order(b, order) ==
    LET b1 == IF order.order_type = "Bid"
              THEN [b EXCEPT !.bids = SideRemove(@, order)]
              ELSE [b EXCEPT !.asks = SideRemove(@, order)]
        b2 == [b1 EXCEPT !.orders = Drop(@, order.exchange_id)]
    IN  TopOfBook(b2)
\* ------------------------------------------------------------------ read-only queries
\* Decimal division by dec!(2): the exact quotient, kept as a fraction
DivBy2(x) == [num |-> x, den |-> 2]

get_order(b, exchange_id) ==
    IF exchange_id \in DOMAIN b.orders THEN {b.orders[exchange_id]} ELSE {}

\* range(limit_price..=limit_price) visits the level at that price, if any
get_bid_depth(b, limit_price) ==
    IF limit_price \in DOMAIN b.bids THEN b.bids[limit_price].size ELSE 0

get_ask_depth(b, limit_price) ==
    IF limit_price \in DOMAIN b.asks THEN b.asks[limit_price].size ELSE 0

get_bid_volume(b, limit_price) ==
    IF limit_price \in DOMAIN b.bids THEN b.bids[limit_price].total_volume ELSE 0

get_ask_volume(b, limit_price) ==
    IF limit_price \in DOMAIN b.asks THEN b.asks[limit_price].total_volume ELSE 0

get_bid_count(b, limit_price) ==
    IF limit_price \in DOMAIN b.bids THEN b.bids[limit_price].order_count ELSE 0

get_ask_count(b, limit_price) ==
    IF limit_price \in DOMAIN b.asks THEN b.asks[limit_price].order_count ELSE 0

\* the Vec is in HashMap iteration order: modelled as the set of its elements
get_bid_orders(b, limit_price) ==
    IF limit_price \in DOMAIN b.bids
    THEN {b.bids[limit_price].orders[id] : id \in DOMAIN b.bids[limit_price].orders}
    ELSE {}

get_ask_orders(b, limit_price) ==
    IF limit_price \in DOMAIN b.asks
    THEN {b.asks[limit_price].orders[id] : id \in DOMAIN b.asks[limit_price].orders}
    ELSE {}

\* a spread computed as highest_bid - lowest_ask
get_spread_Reversed(b) ==
    IF b.highest_bid # {} /\ b.lowest_ask # {}
    THEN {TheOne(b.highest_bid) - TheOne(b.lowest_ask)}
    ELSE {}

get_spread(b) ==
    IF b.highest_bid # {} /\ b.lowest_ask # {}
    THEN {TheOne(b.lowest_ask) - TheOne(b.highest_bid)}
    ELSE {}

get_mid_price(b) ==
    IF b.highest_bid # {} /\ b.lowest_ask # {}
    THEN {DivBy2(TheOne(b.lowest_ask) + TheOne(b.highest_bid))}
    ELSE {}

get_best_bid(b) == b.highest_bid

get_best_ask(b) == b.lowest_ask

\* the keys in ascending order: modelled as the set of keys
get_bids(b) == DOMAIN b.bids

get_asks(b) == DOMAIN b.asks

get_volume_at_price(b, limit_price) ==
    IF limit_price \in DOMAIN b.bids /\ limit_price \in DOMAIN b.asks
    THEN {b.bids[limit_price].total_volume + b.asks[limit_price].total_volume}
    ELSE IF limit_price \in DOMAIN b.bids
    THEN {b.bids[limit_price].total_volume}
    ELSE IF limit_price \in DOMAIN b.asks
    THEN {b.asks[limit_price].total_volume}
    ELSE {}

\* every read-only method of the book, called with exchange_id and limit_price
Answers(b, exchange_id, limit_price) ==
    [get_order |-> get_order(b, exchange_id),
     get_bid_depth |-> get_bid_depth(b, limit_price),
     get_ask_depth |-> get_ask_depth(b, limit_price),
     get_bid_volume |-> get_bid_volume(b, limit_price),
     get_ask_volume |-> get_ask_volume(b, limit_price),
     get_bid_count |-> get_bid_count(b, limit_price),
     get_ask_count |-> get_ask_count(b, limit_price),
     get_bid_orders |-> get_bid_orders(b, limit_price),
     get_ask_orders |-> get_ask_orders(b, limit_price),
     get_spread |-> get_spread(b),
     get_mid_price |-> get_mid_price(b),
     get_best_bid |-> get_best_bid(b),
     get_best_ask |-> get_best_ask(b),
     get_bids |-> get_bids(b),
     get_asks |-> get_asks(b),
     get_volume_at_price |-> get_volume_at_price(b, limit_price)]


\* ------------------------------------------------------------------ execute_order
\* The opposite side's map: asks for a Bid taker, bids for an Ask taker.
Opposite(b, order) == IF order.order_type = "Bid" THEN b.asks ELSE b.bids

SetOpposite(b, order, side) ==
    IF order.order_type = "Bid" THEN [b EXCEPT !.asks = side] ELSE [b EXCEPT !.bids = side]
\* the code after the loop, dropping the last key of the side (keys().next_back())
\* instead of the price recorded in removed_limit
ExecuteTail_DropLastKey(b, order, removed) ==
    LET side == Opposite(b, order)
        b1 == IF removed = {}
              THEN b
              ELSE SetOpposite(b, order, Drop(side, SetMax(DOMAIN side)))
    IN  [b1 EXCEPT !.lowest_ask = KeysFirst(b1.asks), !.highest_bid = KeysLast(b1.bids)]


\* the code after the loop: drop the level recorded in removed_limit, refresh top-of-book
ExecuteTail(b, order, removed) ==
    LET side == Opposite(b, order)
        b1 == IF removed = {}
              THEN b
              ELSE SetOpposite(b, order, Drop(side, TheOne(removed)))
    IN  TopOfBook(b1)

\* ------------------------------------------------------------------ actions
Init ==
    /\ bids = LimitOrderBook_new.bids
    /\ asks = LimitOrderBook_new.asks
    /\ orders = LimitOrderBook_new.orders
    /\ lowest_ask = LimitOrderBook_new.lowest_ask
    /\ highest_bid = LimitOrderBook_new.highest_bid
    /\ pc = "idle"
    /\ ex_order = {}
    /\ ex_limit_price = {}
    /\ removed_limit = {}
    /\ last = [kind |-> "new",
               order |-> [exchange_id |-> 1, order_type |-> "Bid", shares |-> 1, limit_price |-> 1],
               pre |-> LimitOrderBook_new]
    /\ engine = OrderBook_new
    /\ market_order = {}
    /\ engine_last = [kind |-> "new",
                      order |-> [size |-> 1, order_type |-> "Bid"],
                      price |-> 1,
                      pre |-> OrderBook_new]

\* number of resting entries the levels of one side account for
RECURSIVE SideCount(_)
SideCount(side) ==
    IF DOMAIN side = {}
    THEN 0
    ELSE LET p == SetMin(DOMAIN side)
         IN  side[p].order_count + SideCount(Drop(side, p))

\* LimitOrderBook::add_order(order)
AddOrder ==
    \E order \in Order :
        /\ pc = "idle"
        /\ SideCount(bids) + SideCount(asks) < MaxOrders
        /\ SetBook(add_order(Book, order))
        /\ last' = [kind |-> "add", order |-> order, pre |-> Book]
        /\ UNCHANGED <<locals, engine_vars>>

\* LimitOrderBook::remove_order(order)
RemoveOrder ==
    \E order \in Order :
        /\ pc = "idle"
        /\ SetBook(remove_order(Book, order))
        /\ last' = [kind |-> "remove", order |-> order, pre |-> Book]
        /\ UNCHANGED <<locals, engine_vars>>
\* a lookup written with HashMap::remove instead of HashMap::get
Query_TakesOrder ==
    \E exchange_id \in Ids, limit_price \in Prices :
        /\ pc = "idle"
        /\ SetBook([Book EXCEPT !.orders = Drop(@, exchange_id)])
        /\ last' = [kind |-> "query",
                    order |-> [exchange_id |-> exchange_id, order_type |-> "Bid",
                               shares |-> 1, limit_price |-> limit_price],
                    pre |-> Book]
        /\ UNCHANGED <<locals, engine_vars>>

\* a call of the read-only methods (&self) with exchange_id and limit_price; last.order
\* records the two arguments, its other fields are not read
Query ==
    \E exchange_id \in Ids, limit_price \in Prices :
        /\ pc = "idle"
        /\ UNCHANGED <<bids, asks, orders, lowest_ask, highest_bid, engine_vars>>
        /\ last' = [kind |-> "query",
                    order |-> [exchange_id |-> exchange_id, order_type |-> "Bid",
                               shares |-> 1, limit_price |-> limit_price],
                    pre |-> Book]
        /\ UNCHANGED <<locals, engine_vars>>


\* LimitOrderBook::execute_order(order): entry, up to the first test of the loop
ExecuteBegin ==
    \E order \in Order :
        /\ pc = "idle"
        /\ pc' = "loop"
        /\ ex_order' = {order}
        /\ ex_limit_price' = {order.limit_price}
        /\ removed_limit' = {}
        /\ last' = [kind |-> "execute", order |-> order, pre |-> Book]
        /\ UNCHANGED <<bids, asks, orders, lowest_ask, highest_bid, engine_vars>>

Return(b) ==
    /\ SetBook(b)
    /\ pc' = "idle"
    /\ ex_order' = {}
    /\ ex_limit_price' = {}
    /\ removed_limit' = {}
    /\ UNCHANGED <<last, engine_vars>>

\* `while let Some(limit) = side.get_mut(&limit_price)` finds no level: the loop ends
ExecuteExit ==
    /\ pc = "loop"
    /\ LET order == TheOne(ex_order)
           price == TheOne(ex_limit_price)
       IN  /\ price \notin DOMAIN Opposite(Book, order)
           /\ Return(ExecuteTail(Book, order, removed_limit))

\* the `if limit.size >= order.shares` branch, which breaks out of the loop
ExecuteBreak ==
    /\ pc = "loop"
    /\ LET order == TheOne(ex_order)
           price == TheOne(ex_limit_price)
           side == Opposite(Book, order)
       IN  /\ price \in DOMAIN side
           /\ side[price].size >= order.shares
           /\ LET limit == Limit_remove_order(side[price], order)
                  removed == IF Limit_is_empty(limit) THEN {price} ELSE removed_limit
                  b == SetOpposite(Book, order, [side EXCEPT ![price] = limit])
              IN  Return(ExecuteTail(b, order, removed))

\* the `else` branch: one iteration that stays in the loop
ExecuteIter ==
    /\ pc = "loop"
    /\ LET order == TheOne(ex_order)
           price == TheOne(ex_limit_price)
           side == Opposite(Book, order)
       IN  /\ price \in DOMAIN side
           /\ side[price].size < order.shares
           /\ LET order1 == [order EXCEPT !.shares = @ - side[price].size]
                  limit == Limit_remove_order(side[price], order1)
              IN  /\ SetBook(SetOpposite(Book, order, [side EXCEPT ![price] = limit]))
                  /\ ex_order' = {order1}
                  /\ removed_limit' = IF Limit_is_empty(limit) THEN {price} ELSE removed_limit
                  /\ ex_limit_price' = {limit.limit_price}
                  /\ UNCHANGED <<pc, last, engine_vars>>

Next ==
    \/ AddOrder
    \/ RemoveOrder
    \/ Query
    \/ ExecuteBegin
    \/ ExecuteExit
    \/ ExecuteBreak
    \/ ExecuteIter

Spec == Init /\ [][Next]_vars

\* sequences of submits only
NextSubmits == AddOrder

SpecSubmits == Init /\ [][NextSubmits]_vars

\* ================================================================== claims
\* an operation has returned (no execute_order is inside its loop)
Returned == pc = "idle"

Side(b, type) == IF type = "Bid" THEN b.bids ELSE b.asks

\* the (side, price) pairs of the levels of book b whose order map holds id
HoldersOf(b, id) ==
    {sp \in OrderType \X Prices :
        /\ sp[2] \in DOMAIN Side(b, sp[1])
        /\ id \in DOMAIN Side(b, sp[1])[sp[2]].orders}

InSomeLevel(b, id) == HoldersOf(b, id) # {}

\* the aggregate view of a book: per level size, notional and count, the flat
\* index and the top-of-book fields
LevelAgg(limit) ==
    [size |-> limit.size, total_volume |-> limit.total_volume, order_count |-> limit.order_count]

Agg(b) ==
    [bids |-> [p \in DOMAIN b.bids |-> LevelAgg(b.bids[p])],
     asks |-> [p \in DOMAIN b.asks |-> LevelAgg(b.asks[p])],
     orders |-> b.orders,
     lowest_ask |-> b.lowest_ask,
     highest_bid |-> b.highest_bid]

\* C1: after every operation, every order of the flat index is held by exactly
\* one level: the one at its limit price on the side of its order type.
C1_IndexedOrderInExactlyOneLevel ==
    Returned =>
        \A id \in DOMAIN orders :
            HoldersOf(Book, id) = {<<orders[id].order_type, orders[id].limit_price>>}

C3_TopOfBookAgrees ==
    Returned =>
        /\ IF DOMAIN bids = {}
           THEN highest_bid = {}
           ELSE \E p \in DOMAIN bids : highest_bid = {p} /\ \A q \in DOMAIN bids : q <= p
        /\ IF DOMAIN asks = {}
           THEN lowest_ask = {}
           ELSE \E p \in DOMAIN asks : lowest_ask = {p} /\ \A q \in DOMAIN asks : q >= p

\* an execute_order has removed the best bid level and the best bid moved to a lower price,
\* with two ask levels in the book
C3_Witness ==
    /\ Returned
    /\ last.kind = "execute"
    /\ highest_bid # {}
    /\ last.pre.highest_bid # highest_bid
    /\ \E p \in DOMAIN bids : \E q \in DOMAIN last.pre.bids : p < q

\* C4: a submit whose id is already in the flat index (or in the level it is
\* routed to) leaves the whole book as it was.
C4_DuplicateSubmitRejected ==
    (/\ Returned
     /\ last.kind = "add"
     /\ \/ last.order.exchange_id \in DOMAIN last.pre.orders
        \/ <<last.order.order_type, last.order.limit_price>>
               \in HoldersOf(last.pre, last.order.exchange_id))
    => Book = last.pre

\* C5: a cancel whose id is not in the flat index leaves the whole book as it was.
C5_CancelUnknownIsNoOp ==
    (/\ Returned
     /\ last.kind = "remove"
     /\ last.order.exchange_id \notin DOMAIN last.pre.orders)
    => Book = last.pre

\* C6 (as stated): after a submit of any order, cancelling that same order gives
\* back the aggregate state the book had before the submit.
C6_RoundTripAnyOrder ==
    (Returned /\ last.kind = "add")
    => Agg(remove_order(Book, last.order)) = Agg(last.pre)

\* C6 (amended): after a submit of an order whose id was in neither the flat
\* index nor any level, cancelling that same order gives back the aggregate
\* state the book had before the submit.
C6_RoundTripFreshId ==
    (/\ Returned
     /\ last.kind = "add"
     /\ last.order.exchange_id \notin DOMAIN last.pre.orders
     /\ ~InSomeLevel(last.pre, last.order.exchange_id))
    => Agg(remove_order(Book, last.order)) = Agg(last.pre)

\* a fresh-id order has been submitted into a level that already held another order,
\* and cancelling it changes the book back to the one before the submit
C6_Witness ==
    /\ Returned
    /\ last.kind = "add"
    /\ last.order.exchange_id \notin DOMAIN last.pre.orders
    /\ ~InSomeLevel(last.pre, last.order.exchange_id)
    /\ last.order.limit_price \in DOMAIN Side(last.pre, last.order.order_type)
    /\ remove_order(Book, last.order) # Book
    /\ Agg(remove_order(Book, last.order)) = Agg(last.pre)

\* C7: (under SpecSubmits) the number of entries of the flat index equals the
\* sum of order_count over all levels of both sides.
C7_IndexSizeEqualsCounts ==
    Cardinality(DOMAIN orders) = SideCount(bids) + SideCount(asks)

\* the level at price p of the side was consumed (reduced or removed) by the match
Consumed(pre_side, post_side, p) ==
    /\ p \in DOMAIN pre_side
    /\ (p \notin DOMAIN post_side \/ post_side[p] # pre_side[p])

\* best opposite price for a taker: lowest ask for a Bid, highest bid for an Ask
BestOpposite(b, order) ==
    IF order.order_type = "Bid" THEN KeysFirst(b.asks) ELSE KeysLast(b.bids)

Better(order, q, p) == IF order.order_type = "Bid" THEN q < p ELSE q > p

\* the taker's limit price crosses the best opposite price of book b
Marketable(b, order) ==
    /\ BestOpposite(b, order) # {}
    /\ IF order.order_type = "Bid"
       THEN TheOne(BestOpposite(b, order)) <= order.limit_price
       ELSE TheOne(BestOpposite(b, order)) >= order.limit_price

\* C8: a completed match of a marketable taker has consumed the best opposite
\* level, and no opposite level is consumed while a better-priced one still
\* stands in the book.
C8_PricePriority ==
    (Returned /\ last.kind = "execute")
    => LET order == last.order
           pre_side == Opposite(last.pre, order)
           post_side == Opposite(Book, order)
       IN  /\ Marketable(last.pre, order)
                  => Consumed(pre_side, post_side, TheOne(BestOpposite(last.pre, order)))
           /\ \A p \in DOMAIN pre_side :
                  Consumed(pre_side, post_side, p)
                      => \A q \in DOMAIN pre_side : Better(order, q, p) => q \notin DOMAIN post_side

\* C9: a completed match of a marketable taker whose size equals the size of
\* the best opposite level leaves that level out of its side, its orders out of
\* the flat index, and the best opposite price at the next price of that side.
C9_ExactFillRemovesLevel ==
    (/\ Returned
     /\ last.kind = "execute"
     /\ Marketable(last.pre, last.order)
     /\ Opposite(last.pre, last.order)[TheOne(BestOpposite(last.pre, last.order))].size
            = last.order.shares)
    => LET order == last.order
           best == TheOne(BestOpposite(last.pre, order))
           pre_side == Opposite(last.pre, order)
       IN  /\ best \notin DOMAIN Opposite(Book, order)
           /\ \A id \in DOMAIN pre_side[best].orders : id \notin DOMAIN orders
           /\ BestOpposite(Book, order) = BestOpposite([bids |-> Drop(pre_side, best),
                                                        asks |-> Drop(pre_side, best)], order)
           /\ (IF order.order_type = "Bid" THEN lowest_ask ELSE highest_bid)
                  = BestOpposite(Book, order)

\* C10: a completed match of a marketable taker whose size is smaller than the
\* size of the best opposite level leaves that level at its price with size
\* and notional reduced by the taker's size, and the top-of-book prices as they were.
C10_PartialFillReducesLevel ==
    (/\ Returned
     /\ last.kind = "execute"
     /\ Marketable(last.pre, last.order)
     /\ Opposite(last.pre, last.order)[TheOne(BestOpposite(last.pre, last.order))].size
            > last.order.shares)
    => LET order == last.order
           best == TheOne(BestOpposite(last.pre, order))
           pre_limit == Opposite(last.pre, order)[best]
           post_side == Opposite(Book, order)
       IN  /\ best \in DOMAIN post_side
           /\ post_side[best].size = pre_limit.size - order.shares
           /\ post_side[best].total_volume = pre_limit.total_volume - order.shares * best
           /\ post_side[best].order_count <= pre_limit.order_count
           /\ lowest_ask = last.pre.lowest_ask
           /\ highest_bid = last.pre.highest_bid

\* total size of the levels of a side
RECURSIVE SideSize(_)
SideSize(side) ==
    IF DOMAIN side = {}
    THEN 0
    ELSE LET p == SetMin(DOMAIN side)
         IN  side[p].size + SideSize(Drop(side, p))

\* the prices of the opposite levels of book b the taker's limit price crosses
MarketablePrices(b, order) ==
    {p \in DOMAIN Opposite(b, order) :
        IF order.order_type = "Bid" THEN p <= order.limit_price ELSE p >= order.limit_price}

\* total size of the opposite levels of book b the taker's limit price crosses
MarketableSize(b, order) ==
    SideSize([p \in MarketablePrices(b, order) |-> Opposite(b, order)[p]])

\* C11: a completed match of a taker larger than all marketable opposite
\* liquidity has removed every marketable opposite level, and the taker's
\* unfilled remainder rests at its limit price on its own side, merged into
\* the level that was there.
C11_RemainderRests ==
    (/\ Returned
     /\ last.kind = "execute"
     /\ Marketable(last.pre, last.order)
     /\ last.order.shares > MarketableSize(last.pre, last.order))
    => LET order == last.order
           own_pre == Side(last.pre, order.order_type)
           own_post == Side(Book, order.order_type)
           before == IF order.limit_price \in DOMAIN own_pre
                     THEN own_pre[order.limit_price].size
                     ELSE 0
       IN  /\ \A p \in MarketablePrices(last.pre, order) : p \notin DOMAIN Opposite(Book, order)
           /\ order.limit_price \in DOMAIN own_post
           /\ own_post[order.limit_price].size
                  = before + order.shares - MarketableSize(last.pre, order)

\* C12: every iteration of execute_order's loop makes progress: an iteration
\* that stays in the loop takes a positive amount off the taker's remaining
\* shares, so the loop ends after finitely many iterations.
C12_LoopMakesProgress ==
    pc = "loop"
    => LET order == TheOne(ex_order)
           price == TheOne(ex_limit_price)
           side == Opposite(Book, order)
       IN  (price \in DOMAIN side /\ side[price].size < order.shares)
               => side[price].size > 0

\* the taker's limit price does not cross price p of the opposite side
NotMarketableAt(order, p) ==
    IF order.order_type = "Bid" THEN p > order.limit_price ELSE p < order.limit_price

\* C13: a completed match leaves every opposite level that is not marketable
\* against the taker's limit price (an ask above a Bid taker's limit, a bid
\* below an Ask taker's limit) exactly as it was.
C13_NonMarketableUntouched ==
    (Returned /\ last.kind = "execute")
    => LET order == last.order
           pre_side == Opposite(last.pre, order)
           post_side == Opposite(Book, order)
       IN  \A p \in DOMAIN pre_side :
               NotMarketableAt(order, p)
                   => (p \in DOMAIN post_side /\ post_side[p] = pre_side[p])

\* a match has removed an opposite level while a level the taker's limit does not
\* cross stands in the book
C13_Witness ==
    /\ Returned
    /\ last.kind = "execute"
    /\ \E p \in DOMAIN Opposite(last.pre, last.order) : p \notin DOMAIN Opposite(Book, last.order)
    /\ \E p \in DOMAIN Opposite(last.pre, last.order) : NotMarketableAt(last.order, p)

\* the resting order id of the level was reduced or removed between the two sides
Reduced(pre_side, post_side, p, id) ==
    \/ p \notin DOMAIN post_side
    \/ id \notin DOMAIN post_side[p].orders
    \/ post_side[p].orders[id].shares < pre_side[p].orders[id].shares

\* the resting order id of the level still has remaining size after the match
Remains(post_side, p, id) ==
    /\ p \in DOMAIN post_side
    /\ id \in DOMAIN post_side[p].orders
    /\ post_side[p].orders[id].shares > 0

\* C14: a completed match never reduces a resting order while an order of the
\* same level with an earlier entry time still has remaining size.
C14_TimePriority ==
    (Returned /\ last.kind = "execute")
    => LET pre_side == Opposite(last.pre, last.order)
           post_side == Opposite(Book, last.order)
       IN  \A p \in DOMAIN pre_side :
               \A i, j \in DOMAIN pre_side[p].orders :
                   (/\ entry_time(pre_side[p].orders[i]) < entry_time(pre_side[p].orders[j])
                    /\ Reduced(pre_side, post_side, p, j))
                   => ~Remains(post_side, p, i)

\* C15: cancelling the order the flat index holds for an id takes the order's
\* size, notional and one count off its level and the id out of the flat
\* index; the level stays in its side when it holds other orders and leaves
\* it when the cancelled order was its last; every other level is unchanged.
C15_CancelUpdatesLevel ==
    (/\ Returned
     /\ last.kind = "remove"
     /\ last.order.exchange_id \in DOMAIN last.pre.orders
     /\ last.pre.orders[last.order.exchange_id] = last.order)
    => LET order == last.order
           p == order.limit_price
           pre_side == Side(last.pre, order.order_type)
           post_side == Side(Book, order.order_type)
           other == IF order.order_type = "Bid" THEN "Ask" ELSE "Bid"
       IN  /\ order.exchange_id \notin DOMAIN orders
           /\ p \in DOMAIN pre_side
           /\ order.exchange_id \in DOMAIN pre_side[p].orders
           /\ IF DOMAIN pre_side[p].orders = {order.exchange_id}
              THEN p \notin DOMAIN post_side
              ELSE /\ p \in DOMAIN post_side
                   /\ post_side[p].size = pre_side[p].size - order.shares
                   /\ post_side[p].total_volume = pre_side[p].total_volume - order.shares * p
                   /\ post_side[p].order_count = pre_side[p].order_count - 1
           /\ \A q \in DOMAIN pre_side \ {p} : q \in DOMAIN post_side /\ post_side[q] = pre_side[q]
           /\ DOMAIN post_side \subseteq DOMAIN pre_side
           /\ Side(Book, other) = Side(last.pre, other)

OtherType(type) == IF type = "Bid" THEN "Ask" ELSE "Bid"

\* C16: a submit leaves the whole opposite side and every level of its own side
\* at another price as they were, and the level at its price holds the order
\* with the level's size grown by the order's full size: nothing is matched,
\* also when the order's price crosses the best opposite price.
C16_SubmitNeverMatches ==
    (Returned /\ last.kind = "add")
    => LET order == last.order
           p == order.limit_price
           pre_side == Side(last.pre, order.order_type)
           post_side == Side(Book, order.order_type)
       IN  /\ Side(Book, OtherType(order.order_type)) = Side(last.pre, OtherType(order.order_type))
           /\ DOMAIN post_side = DOMAIN pre_side \cup {p}
           /\ \A q \in DOMAIN pre_side \ {p} : post_side[q] = pre_side[q]
           /\ post_side[p].size = (IF p \in DOMAIN pre_side THEN pre_side[p].size ELSE 0) + order.shares
           /\ order.exchange_id \in DOMAIN post_side[p].orders
           /\ post_side[p].orders[order.exchange_id] = order

\* an order has been submitted at a price that crosses the best opposite price
C16_Witness ==
    /\ Returned
    /\ last.kind = "add"
    /\ Marketable(last.pre, last.order)
    /\ Marketable(Book, last.order)

\* C17: once an operation has returned, get_spread and get_mid_price are None
\* when bids or asks is empty, and otherwise the spread is the least ask key
\* minus the greatest bid key and the mid price is half their sum.
C17_SpreadAndMid ==
    Returned =>
        IF DOMAIN bids = {} \/ DOMAIN asks = {}
        THEN get_spread(Book) = {} /\ get_mid_price(Book) = {}
        ELSE /\ get_spread(Book) = {SetMin(DOMAIN asks) - SetMax(DOMAIN bids)}
             /\ \E m \in get_mid_price(Book) :
                    /\ get_mid_price(Book) = {m}
                    /\ m.num * 2 = (SetMin(DOMAIN asks) + SetMax(DOMAIN bids)) * m.den

\* a submit has refilled an empty side: the spread had no value before it and has a
\* non-zero value after it
C17_Witness ==
    /\ Returned
    /\ last.kind = "add"
    /\ DOMAIN last.pre.bids # {}
    /\ DOMAIN last.pre.asks = {}
    /\ get_spread(last.pre) = {}
    /\ get_spread(Book) # {}
    /\ get_spread(Book) # {0}

\* C18: a call of the read-only methods leaves the level maps, every level's orders
\* and aggregates, the flat index and the cached top of book as they were.
C18_QueriesDoNotMutate ==
    (Returned /\ last.kind = "query") => Book = last.pre

\* a query on a book with both sides populated that finds its order and a level
C18_Witness ==
    /\ Returned
    /\ last.kind = "query"
    /\ DOMAIN bids # {}
    /\ DOMAIN asks # {}
    /\ LET a == Answers(last.pre, last.order.exchange_id, last.order.limit_price)
       IN  /\ a.get_order # {}
           /\ a.get_bid_depth > 0
           /\ a.get_spread # {}
           /\ a.get_volume_at_price # {}

\* C19: during a match the taker's remaining size has decreased by exactly the amount
\* by which the opposite side's resting sizes have decreased, and once the match has
\* returned every resting order that left its level has left the flat index too.
C19_FillsDecrementBoth ==
    /\ (pc = "loop")
       => LET order == last.order
          IN  order.shares - TheOne(ex_order).shares
                  = SideSize(Opposite(last.pre, order)) - SideSize(Opposite(Book, order))
    /\ (Returned /\ last.kind = "execute")
       => LET order == last.order
              pre_side == Opposite(last.pre, order)
              post_side == Opposite(Book, order)
          IN  \A p \in DOMAIN pre_side :
                  \A id \in DOMAIN pre_side[p].orders :
                      (p \notin DOMAIN post_side \/ id \notin DOMAIN post_side[p].orders)
                          => id \notin DOMAIN orders

\* the levels of both sides
Levels == {bids[p] : p \in DOMAIN bids} \cup {asks[p] : p \in DOMAIN asks}

RECURSIVE SumShares(_)
SumShares(m) ==
    IF DOMAIN m = {} THEN 0
    ELSE LET id == SetMin(DOMAIN m)
         IN  m[id].shares + SumShares(Drop(m, id))

\* the sum of shares times limit price of the orders in a level's map
RECURSIVE SumNotional(_)
SumNotional(m) ==
    IF DOMAIN m = {} THEN 0
    ELSE LET id == SetMin(DOMAIN m)
         IN  m[id].shares * m[id].limit_price + SumNotional(Drop(m, id))

\* C21: in every state, every price level's size, total_volume and order_count equal
\* the sum of shares, the sum of shares times price and the number of the orders in
\* its map; and a cancel of an id that its level does not hold leaves the level as
\* it was.
C21_AggregatesMatchMap ==
    /\ \A limit \in Levels :
           /\ limit.size = SumShares(limit.orders)
           /\ limit.total_volume = SumNotional(limit.orders)
           /\ limit.order_count = Cardinality(DOMAIN limit.orders)
    /\ (Returned /\ last.kind = "remove")
       => LET order == last.order
              p == order.limit_price
              pre_side == Side(last.pre, order.order_type)
              post_side == Side(Book, order.order_type)
          IN  (p \in DOMAIN pre_side /\ order.exchange_id \notin DOMAIN pre_side[p].orders)
                  => (p \in DOMAIN post_side /\ post_side[p] = pre_side[p])

\* ------------------------------------------------------------------ simple engine: actions
\* the number of resting orders in the levels of one side of the engine
RECURSIVE Resting(_)
Resting(side) ==
    IF DOMAIN side = {}
    THEN 0
    ELSE LET p == SetMin(DOMAIN side)
         IN  Len(side[p].orders) + Resting(Drop(side, p))

\* OrderBook::add_limit_order(order, price)
AddLimitOrder ==
    \E order \in Order_new, price \in Prices :
        /\ Resting(engine.bids) + Resting(engine.asks) < MaxResting
        /\ engine' = add_limit_order(engine, order, price)
        /\ engine_last' = [kind |-> "add_limit_order", order |-> order, price |-> price,
                           pre |-> engine]
        /\ UNCHANGED <<market_order, book_vars>>

\* OrderBook::fill_market_order(&mut market_order) with a new market order
FillMarketOrder ==
    \E order \in Order_new :
        /\ engine' = fill_market_order(engine, order).book
        /\ market_order' = {fill_market_order(engine, order).market_order}
        /\ engine_last' = [kind |-> "fill_market_order", order |-> order, price |-> 1,
                           pre |-> engine]
        /\ UNCHANGED book_vars

NextEngine ==
    \/ AddLimitOrder
    \/ FillMarketOrder

SpecEngine == Init /\ [][NextEngine]_vars

\* the side of the engine's book b that a market order of this type is filled against
EngineOpposite(b, order) == IF order.order_type = "Bid" THEN b.asks ELSE b.bids

\* the side of the engine's book b that holds limit orders of this type
EngineSame(b, order) == IF order.order_type = "Bid" THEN b.bids ELSE b.asks

\* p is a better price than q for a market order of this type to be filled at
BetterFor(order, p, q) == IF order.order_type = "Bid" THEN p < q ELSE p > q

\* every resting order of the level has size 0
AllFilled(limit) == \A i \in 1..Len(limit.orders) : limit.orders[i].size = 0

\* C22: after fill_market_order, a level of the opposite side has changed only if
\* every level at a better price (lower for a Bid market order, higher for an Ask)
\* holds filled orders only, so the levels worse than the one that filled the market
\* order are as they were; a market order left unfilled has emptied every level; the
\* side keeps its levels and every level keeps its orders, filled ones with size 0;
\* the market order's own side is untouched.
C22_FillsInPriceOrder ==
    engine_last.kind = "fill_market_order"
    => LET order == engine_last.order
           pre_side == EngineOpposite(engine_last.pre, order)
           post_side == EngineOpposite(engine, order)
           after == TheOne(market_order)
       IN  /\ EngineSame(engine, order) = EngineSame(engine_last.pre, order)
           /\ DOMAIN post_side = DOMAIN pre_side
           /\ \A p \in DOMAIN pre_side :
                  /\ post_side[p].price = pre_side[p].price
                  /\ Len(post_side[p].orders) = Len(pre_side[p].orders)
           /\ \A p, q \in DOMAIN pre_side :
                  (BetterFor(order, p, q) /\ post_side[q] # pre_side[q])
                      => AllFilled(post_side[p])
           /\ ~is_filled(after) => \A p \in DOMAIN pre_side : AllFilled(post_side[p])

\* a Bid market order was filled at the lowest of two ask levels: that level keeps an
\* order of size 0 and the level at the higher price is as it was
C22_Witness ==
    /\ engine_last.kind = "fill_market_order"
    /\ engine_last.order.order_type = "Bid"
    /\ is_filled(TheOne(market_order))
    /\ \E p, q \in DOMAIN engine_last.pre.asks :
           /\ p < q
           /\ engine.asks[p] # engine_last.pre.asks[p]
           /\ \E i \in 1..Len(engine.asks[p].orders) : engine.asks[p].orders[i].size = 0
           /\ engine.asks[q] = engine_last.pre.asks[q]
           /\ ~AllFilled(engine.asks[q])

\* the sum of the sizes of a level's resting orders
RECURSIVE SumSizes(_)
SumSizes(limit_orders) ==
    IF limit_orders = << >>
    THEN 0
    ELSE Head(limit_orders).size + SumSizes(Tail(limit_orders))

\* the sum of the sizes of the resting orders of one side of the engine
RECURSIVE EngineSideSize(_)
EngineSideSize(side) ==
    IF DOMAIN side = {}
    THEN 0
    ELSE LET p == SetMin(DOMAIN side)
         IN  SumSizes(side[p].orders) + EngineSideSize(Drop(side, p))

\* C23: after the fill_order calls of one fill_market_order, the market order's size
\* has decreased by exactly the sum of the decreases of the resting orders' sizes, no
\* size is negative or has grown, and within a level an order has been reduced only
\* if every order inserted before it has size 0.
C23_FillConservesSize ==
    engine_last.kind = "fill_market_order"
    => LET order == engine_last.order
           pre_side == EngineOpposite(engine_last.pre, order)
           post_side == EngineOpposite(engine, order)
           after == TheOne(market_order)
       IN  /\ order.size - after.size = EngineSideSize(pre_side) - EngineSideSize(post_side)
           /\ after.size >= 0
           /\ after.size <= order.size
           /\ \A p \in DOMAIN pre_side :
                  \A j \in 1..Len(pre_side[p].orders) :
                      /\ post_side[p].orders[j].size >= 0
                      /\ post_side[p].orders[j].size <= pre_side[p].orders[j].size
                      /\ post_side[p].orders[j].size < pre_side[p].orders[j].size
                             => \A i \in 1..(j - 1) : post_side[p].orders[i].size = 0
====
